---- MODULE Spec2Model ----
(***************************************************************************)
(* Model of src/server.js: the shared-secret middleware, the /verify_key   *)
(* handler, the connection pool it draws from and the whitelist table.     *)
(* A handler runs atomically between two awaits (Node's single thread);    *)
(* the statements sent to MySQL execute at the database in between, so     *)
(* each await is a point where other requests interleave.                  *)
(***************************************************************************)
EXTENDS Integers, Sequences, FiniteSets, TLC

(* ------------------------------ bounds -------------------------------- *)

\* number of requests the clients send
NReq == 2

Reqs == 1..NReq

(* --------------------------- JavaScript values ------------------------- *)

Undef == [t |-> "undefined", v |-> ""]
Null == [t |-> "null", v |-> ""]
Str(s) == [t |-> "string", v |-> s]

\* ToBoolean of a value: undefined, null and '' are falsy
Truthy(x) == x.t = "string" /\ x.v # ""

\* a || b
OrJS(a, b) == IF Truthy(a) THEN a ELSE b

\* a === b
StrictEq(a, b) == a.t = b.t /\ a.v = b.v

(* ------------------------------ inputs -------------------------------- *)

\* values process.env.SERVER_API_KEY can have: unset, set to '', set
Secrets == {Undef, Str(""), Str("S3CRET")}

\* req.headers['x-server-auth']: absent, or the header's string
HeaderValues == {Undef, Str(""), Str("S3CRET")}

\* req.body.serverAuthKey: absent, or a JSON string
BodyAuthValues == {Undef, Str(""), Str("S3CRET"), Str("guess")}

\* the table's `Key` values: K1 and K2 are provisioned, K0 never is
KeyNames == {"K0", "K1", "K2"}

\* the routes requests ask for
Routes == {"/verify_key", "/health"}

\* req.body.key
KeyValues == {Str(""), Str("K0"), Str("K1")}

\* req.body.hwid
HwidValues == {Undef, Str("null"), Str("H1"), Str("H2")}

\* the rows provisioning leaves in the table for a key (before any request)
SeedRows ==
    { [HWID |-> Null, redeemedBy |-> Null],
      [HWID |-> Str(""), redeemedBy |-> Str("")],
      [HWID |-> Null, redeemedBy |-> Str("true")],
      [HWID |-> Str("H1"), redeemedBy |-> Str("true")] }

\* the representations of an unbound record: HWID NULL or '', with
\* redeemedBy NULL, '' or set (a SELECT gives null for NULL, never undefined)
ReprRows ==
    { [HWID |-> h, redeemedBy |-> m] :
        h \in {Null, Str("")}, m \in {Null, Str(""), Str("true")} }

(* ----------------------------- responses ------------------------------ *)

Res(status, success, message) ==
    [status |-> status, success |-> success, message |-> message]

NoRes == Res(0, FALSE, "")
Unauthorized == Res(401, FALSE, "Unauthorized: Invalid server key.")
MissingInput == Res(400, FALSE, "Missing key or HWID.")
InvalidKey == Res(200, FALSE, "Invalid key.")
AlreadyRedeemedByOther ==
    Res(200, FALSE, "This key has already been redeemed by another user.")
RedeemedNow == Res(200, TRUE, "Key redeemed successfully! Welcome.")
AuthorizedMatch == Res(200, TRUE, "Authentication successful! Welcome.")
HwidMismatch ==
    Res(200, FALSE, "HWID mismatch. This key is linked to a different device.")
StoreError == Res(500, FALSE, "Internal server error.")
\* { status: 'ok', message: ... }: the success field holds status = 'ok'
HealthOk == Res(200, TRUE, "Auth server is running.")

(* ------------------------------- state -------------------------------- *)

VARIABLES
    secret,         \* process.env.SERVER_API_KEY
    store,          \* the whitelist table: key -> the rows with that `Key`
    held,           \* pool connections handed out and not yet released
    pc,             \* where each request's handler stands
    serverAuthKey,  \* the middleware's local serverAuthKey
    key,            \* the handler's local key
    hwid,           \* the handler's local hwid
    connection,     \* the handler's local connection (TRUE once acquired)
    rows,           \* the handler's local rows
    res,            \* the response sent
    fault,          \* the store operation that threw, if any
    nReads,         \* SELECT statements the request has issued
    nWrites,        \* UPDATE statements the request has issued
    nReleases,      \* connection.release() calls the request has made
    seed,           \* the table as provisioned (history)
    route,          \* the route the request asks for
    others          \* connections held by requests that are not in Reqs

vars == <<secret, store, held, pc, serverAuthKey, key, hwid, connection, rows,
          res, fault, nReads, nWrites, nReleases, seed, route, others>>

\* the pool's connectionLimit
connectionLimit == 10

\* rows not fetched yet
NotFetched == <<[HWID |-> Undef, redeemedBy |-> Undef]>>

\* the server after startup, with K1's record one of provisioned
InitRows(provisioned) ==
    /\ secret \in Secrets
    /\ \E row \in provisioned :
           store = [k \in KeyNames |->
                      CASE k = "K1" -> <<row>>
                        [] k = "K2" -> <<[HWID |-> Null, redeemedBy |-> Null]>>
                        [] OTHER -> << >>]
    /\ seed = store
    /\ held = 0
    /\ pc = [r \in Reqs |-> "new"]
    /\ serverAuthKey = [r \in Reqs |-> Undef]
    /\ key = [r \in Reqs |-> Undef]
    /\ hwid = [r \in Reqs |-> Undef]
    /\ connection = [r \in Reqs |-> FALSE]
    /\ rows = [r \in Reqs |-> NotFetched]
    /\ res = [r \in Reqs |-> NoRes]
    /\ fault = [r \in Reqs |-> "none"]
    /\ nReads = [r \in Reqs |-> 0]
    /\ nWrites = [r \in Reqs |-> 0]
    /\ nReleases = [r \in Reqs |-> 0]
    /\ route = [r \in Reqs |-> "none"]
    /\ others = 0

\* the server after startup, whatever the environment configures
InitAnyConfig == InitRows(SeedRows)

\* the server after startup in a deployment that sets SERVER_API_KEY
Init == InitAnyConfig /\ secret = Str("S3CRET")

\* the server after startup, K1's record unbound in any representation
InitRepr == InitRows(ReprRows) /\ secret = Str("S3CRET")

(* ------------------------- the access gate ---------------------------- *)

\* const serverAuthKey = req.headers['x-server-auth'] || req.body.serverAuthKey
SuppliedCredential(header, bodyAuth) == OrJS(header, bodyAuth)

\* serverAuthKey === process.env.SERVER_API_KEY
GatePasses(cred, configured) == StrictEq(cred, configured)

InputMissing_asKeyOnly(k, h) == ~Truthy(k)

\* !key || !hwid
InputMissing(k, h) == ~Truthy(k) \/ ~Truthy(h)

\* the middleware answers 401; the route handler never runs
GateReject(r) ==
    /\ pc[r] = "new"
    /\ \E header \in HeaderValues, bodyAuth \in BodyAuthValues :
         LET cred == SuppliedCredential(header, bodyAuth) IN
           /\ ~GatePasses(cred, secret)
           /\ serverAuthKey' = [serverAuthKey EXCEPT ![r] = cred]
    /\ \E path \in Routes : route' = [route EXCEPT ![r] = path]
    /\ res' = [res EXCEPT ![r] = Unauthorized]
    /\ pc' = [pc EXCEPT ![r] = "done"]
    /\ UNCHANGED <<secret, store, held, key, hwid, connection, rows, fault,
                   nReads, nWrites, nReleases, seed, others>>

\* the middleware calls next(); the handler answers 400 before the try block
MissingInputReject(r) ==
    /\ pc[r] = "new"
    /\ \E header \in HeaderValues, bodyAuth \in BodyAuthValues,
          k \in KeyValues, h \in HwidValues :
         LET cred == SuppliedCredential(header, bodyAuth) IN
           /\ GatePasses(cred, secret)
           /\ InputMissing(k, h)
           /\ serverAuthKey' = [serverAuthKey EXCEPT ![r] = cred]
           /\ key' = [key EXCEPT ![r] = k]
           /\ hwid' = [hwid EXCEPT ![r] = h]
    /\ route' = [route EXCEPT ![r] = "/verify_key"]
    /\ res' = [res EXCEPT ![r] = MissingInput]
    /\ pc' = [pc EXCEPT ![r] = "done"]
    /\ UNCHANGED <<secret, store, held, connection, rows, fault,
                   nReads, nWrites, nReleases, seed, others>>

\* the middleware calls next(); the handler asks the pool for a connection
VerifyStart(r) ==
    /\ pc[r] = "new"
    /\ \E header \in HeaderValues, bodyAuth \in BodyAuthValues,
          k \in KeyValues, h \in HwidValues :
         LET cred == SuppliedCredential(header, bodyAuth) IN
           /\ GatePasses(cred, secret)
           /\ ~InputMissing(k, h)
           /\ serverAuthKey' = [serverAuthKey EXCEPT ![r] = cred]
           /\ key' = [key EXCEPT ![r] = k]
           /\ hwid' = [hwid EXCEPT ![r] = h]
    /\ route' = [route EXCEPT ![r] = "/verify_key"]
    /\ pc' = [pc EXCEPT ![r] = "getConnection"]
    /\ UNCHANGED <<secret, store, held, connection, rows, res, fault,
                   nReads, nWrites, nReleases, seed, others>>

\* GET /health: the middleware calls next(); the handler answers ok
Health(r) ==
    /\ pc[r] = "new"
    /\ \E header \in HeaderValues, bodyAuth \in BodyAuthValues :
         LET cred == SuppliedCredential(header, bodyAuth) IN
           /\ GatePasses(cred, secret)
           /\ serverAuthKey' = [serverAuthKey EXCEPT ![r] = cred]
    /\ route' = [route EXCEPT ![r] = "/health"]
    /\ res' = [res EXCEPT ![r] = HealthOk]
    /\ pc' = [pc EXCEPT ![r] = "done"]
    /\ UNCHANGED <<secret, store, held, key, hwid, connection, rows, fault,
                   nReads, nWrites, nReleases, seed, others>>

(* ----------------------- the connection pool -------------------------- *)

Finish_asLeakOnError(r, response) ==
    /\ res' = [res EXCEPT ![r] = response]
    /\ pc' = [pc EXCEPT ![r] = "done"]
    /\ IF connection[r] /\ response # StoreError
         THEN /\ held' = held - 1
              /\ nReleases' = [nReleases EXCEPT ![r] = @ + 1]
         ELSE UNCHANGED <<held, nReleases>>

\* every exit of the try block: res is sent, then finally releases the
\* connection if one was acquired
Finish(r, response) ==
    /\ res' = [res EXCEPT ![r] = response]
    /\ pc' = [pc EXCEPT ![r] = "done"]
    /\ IF connection[r]
         THEN /\ held' = held - 1
              /\ nReleases' = [nReleases EXCEPT ![r] = @ + 1]
         ELSE UNCHANGED <<held, nReleases>>

\* pool.getConnection() resolves; the handler sends the SELECT
GetConnection(r) ==
    /\ pc[r] = "getConnection"
    /\ held < connectionLimit
    /\ held' = held + 1
    /\ connection' = [connection EXCEPT ![r] = TRUE]
    /\ nReads' = [nReads EXCEPT ![r] = @ + 1]
    /\ pc' = [pc EXCEPT ![r] = "select"]
    /\ UNCHANGED <<secret, store, serverAuthKey, key, hwid, rows, res, fault,
                   nWrites, nReleases, seed, route, others>>

GetConnectionFail_asNoWait(r) ==
    /\ pc[r] = "getConnection"
    /\ fault' = [fault EXCEPT ![r] = "getConnection"]
    /\ Finish(r, StoreError)
    /\ UNCHANGED <<secret, store, serverAuthKey, key, hwid, connection, rows,
                   nReads, nWrites, seed, route, others>>

\* pool.getConnection() rejects: catch answers 500, connection is undefined.
\* With waitForConnections the pool only rejects when opening a connection
\* fails, and it opens one only while fewer than connectionLimit are out.
GetConnectionFail(r) ==
    /\ pc[r] = "getConnection"
    /\ held < connectionLimit
    /\ fault' = [fault EXCEPT ![r] = "getConnection"]
    /\ Finish(r, StoreError)
    /\ UNCHANGED <<secret, store, serverAuthKey, key, hwid, connection, rows,
                   nReads, nWrites, seed, route, others>>

\* a request that is not in Reqs is handed a connection by the same handler
OtherAcquire ==
    /\ held < connectionLimit
    /\ held' = held + 1
    /\ others' = others + 1
    /\ UNCHANGED <<secret, store, pc, serverAuthKey, key, hwid, connection,
                   rows, res, fault, nReads, nWrites, nReleases, seed, route>>

\* a request that is not in Reqs reaches finally and releases its connection
OtherRelease ==
    /\ others > 0
    /\ held' = held - 1
    /\ others' = others - 1
    /\ UNCHANGED <<secret, store, pc, serverAuthKey, key, hwid, connection,
                   rows, res, fault, nReads, nWrites, nReleases, seed, route>>

(* ------------------------------ the read ------------------------------ *)

\* SELECT HWID, redeemedBy FROM whitelist WHERE `Key` = ?
SelectRows(k) == IF k.v \in KeyNames THEN store[k.v] ELSE << >>

\* MySQL executes the SELECT; the rows are what the table holds now
SelectExec(r) ==
    /\ pc[r] = "select"
    /\ rows' = [rows EXCEPT ![r] = SelectRows(key[r])]
    /\ pc' = [pc EXCEPT ![r] = "rows"]
    /\ UNCHANGED <<secret, store, held, serverAuthKey, key, hwid, connection,
                   res, fault, nReads, nWrites, nReleases, seed, route, others>>

\* the SELECT throws: catch answers 500, finally releases
SelectFail(r) ==
    /\ pc[r] = "select"
    /\ fault' = [fault EXCEPT ![r] = "select"]
    /\ Finish(r, StoreError)
    /\ UNCHANGED <<secret, store, serverAuthKey, key, hwid, connection, rows,
                   nReads, nWrites, seed, route, others>>

(* --------------------- the redemption state machine ------------------- *)

HwidUnset_asNullOnly(entry) ==
    \/ StrictEq(entry.HWID, Null)
    \/ StrictEq(entry.HWID, Str("null"))

\* entry.HWID === null || entry.HWID === 'null' || entry.HWID === ''
HwidUnset(entry) ==
    \/ StrictEq(entry.HWID, Null)
    \/ StrictEq(entry.HWID, Str("null"))
    \/ StrictEq(entry.HWID, Str(""))

\* entry.redeemedBy !== null && entry.redeemedBy !== 'null' && entry.redeemedBy !== ''
RedeemedSet(entry) ==
    /\ ~StrictEq(entry.redeemedBy, Null)
    /\ ~StrictEq(entry.redeemedBy, Str("null"))
    /\ ~StrictEq(entry.redeemedBy, Str(""))

RespondInvalidKey_asError(r) ==
    /\ pc[r] = "rows"
    /\ Len(rows[r]) = 0
    /\ Finish(r, StoreError)
    /\ UNCHANGED <<secret, store, serverAuthKey, key, hwid, connection, rows,
                   fault, nReads, nWrites, seed, route, others>>

\* rows.length === 0
RespondInvalidKey(r) ==
    /\ pc[r] = "rows"
    /\ Len(rows[r]) = 0
    /\ Finish(r, InvalidKey)
    /\ UNCHANGED <<secret, store, serverAuthKey, key, hwid, connection, rows,
                   fault, nReads, nWrites, seed, route, others>>

RespondAlreadyRedeemed_asRebind(r) ==
    /\ pc[r] = "rows"
    /\ Len(rows[r]) > 0
    /\ HwidUnset(rows[r][1])
    /\ RedeemedSet(rows[r][1])
    /\ nWrites' = [nWrites EXCEPT ![r] = @ + 1]
    /\ pc' = [pc EXCEPT ![r] = "update"]
    /\ UNCHANGED <<secret, store, held, serverAuthKey, key, hwid, connection,
                   rows, res, fault, nReads, nReleases, seed, route, others>>

\* HWID unset, redeemedBy set
RespondAlreadyRedeemed(r) ==
    /\ pc[r] = "rows"
    /\ Len(rows[r]) > 0
    /\ HwidUnset(rows[r][1])
    /\ RedeemedSet(rows[r][1])
    /\ Finish(r, AlreadyRedeemedByOther)
    /\ UNCHANGED <<secret, store, serverAuthKey, key, hwid, connection, rows,
                   fault, nReads, nWrites, seed, route, others>>

IssueUpdate_asTwice(r) ==
    /\ pc[r] = "rows"
    /\ Len(rows[r]) > 0
    /\ HwidUnset(rows[r][1])
    /\ ~RedeemedSet(rows[r][1])
    /\ nWrites' = [nWrites EXCEPT ![r] = @ + 2]
    /\ pc' = [pc EXCEPT ![r] = "update"]
    /\ UNCHANGED <<secret, store, held, serverAuthKey, key, hwid, connection,
                   rows, res, fault, nReads, nReleases, seed, route, others>>

\* HWID unset, redeemedBy unset: the handler sends the UPDATE
IssueUpdate(r) ==
    /\ pc[r] = "rows"
    /\ Len(rows[r]) > 0
    /\ HwidUnset(rows[r][1])
    /\ ~RedeemedSet(rows[r][1])
    /\ nWrites' = [nWrites EXCEPT ![r] = @ + 1]
    /\ pc' = [pc EXCEPT ![r] = "update"]
    /\ UNCHANGED <<secret, store, held, serverAuthKey, key, hwid, connection,
                   rows, res, fault, nReads, nReleases, seed, route, others>>

\* entry.HWID === hwid
RespondMatch(r) ==
    /\ pc[r] = "rows"
    /\ Len(rows[r]) > 0
    /\ ~HwidUnset(rows[r][1])
    /\ StrictEq(rows[r][1].HWID, hwid[r])
    /\ Finish(r, AuthorizedMatch)
    /\ UNCHANGED <<secret, store, serverAuthKey, key, hwid, connection, rows,
                   fault, nReads, nWrites, seed, route, others>>

\* else
RespondMismatch(r) ==
    /\ pc[r] = "rows"
    /\ Len(rows[r]) > 0
    /\ ~HwidUnset(rows[r][1])
    /\ ~StrictEq(rows[r][1].HWID, hwid[r])
    /\ Finish(r, HwidMismatch)
    /\ UNCHANGED <<secret, store, serverAuthKey, key, hwid, connection, rows,
                   fault, nReads, nWrites, seed, route, others>>

(* ------------------------------ the write ----------------------------- *)

UpdateRows_asHwidOnly(table, k, h, owner) ==
    IF k.v \in KeyNames
      THEN [table EXCEPT ![k.v] =
              [i \in DOMAIN @ |-> [HWID |-> h, redeemedBy |-> @[i].redeemedBy]]]
      ELSE table

UpdateRows_asNoWhere(table, k, h, owner) ==
    [n \in DOMAIN table |->
        [i \in DOMAIN table[n] |-> [HWID |-> h, redeemedBy |-> owner]]]

\* UPDATE whitelist SET HWID = ?, redeemedBy = ? WHERE `Key` = ?
UpdateRows(table, k, h, owner) ==
    IF k.v \in KeyNames
      THEN [table EXCEPT ![k.v] =
              [i \in DOMAIN @ |-> [HWID |-> h, redeemedBy |-> owner]]]
      ELSE table

\* MySQL executes the UPDATE on the table as it is now
UpdateExec(r) ==
    /\ pc[r] = "update"
    /\ store' = UpdateRows(store, key[r], hwid[r], Str("true"))
    /\ pc' = [pc EXCEPT ![r] = "updated"]
    /\ UNCHANGED <<secret, held, serverAuthKey, key, hwid, connection, rows,
                   res, fault, nReads, nWrites, nReleases, seed, route, others>>

UpdateFail_asHalfApplied(r) ==
    /\ pc[r] = "update"
    /\ fault' = [fault EXCEPT ![r] = "update"]
    /\ store' = UpdateRows(store, key[r], hwid[r], Str("true"))
    /\ Finish(r, StoreError)
    /\ UNCHANGED <<secret, serverAuthKey, key, hwid, connection, rows,
                   nReads, nWrites, seed, route, others>>

\* the UPDATE throws (the statement is rejected as a whole): catch answers
\* 500, finally releases
UpdateFail(r) ==
    /\ pc[r] = "update"
    /\ fault' = [fault EXCEPT ![r] = "update"]
    /\ Finish(r, StoreError)
    /\ UNCHANGED <<secret, store, serverAuthKey, key, hwid, connection, rows,
                   nReads, nWrites, seed, route, others>>

\* the UPDATE resolved
RespondRedeemed(r) ==
    /\ pc[r] = "updated"
    /\ Finish(r, RedeemedNow)
    /\ UNCHANGED <<secret, store, serverAuthKey, key, hwid, connection, rows,
                   fault, nReads, nWrites, seed, route, others>>

(* --------------------------- specifications --------------------------- *)

Next ==
    \/ \E r \in Reqs : GateReject(r)
    \/ \E r \in Reqs : MissingInputReject(r)
    \/ \E r \in Reqs : VerifyStart(r)
    \/ \E r \in Reqs : Health(r)
    \/ \E r \in Reqs : GetConnection(r)
    \/ \E r \in Reqs : GetConnectionFail(r)
    \/ \E r \in Reqs : SelectExec(r)
    \/ \E r \in Reqs : SelectFail(r)
    \/ \E r \in Reqs : RespondInvalidKey(r)
    \/ \E r \in Reqs : RespondAlreadyRedeemed(r)
    \/ \E r \in Reqs : IssueUpdate(r)
    \/ \E r \in Reqs : RespondMatch(r)
    \/ \E r \in Reqs : RespondMismatch(r)
    \/ \E r \in Reqs : UpdateExec(r)
    \/ \E r \in Reqs : UpdateFail(r)
    \/ \E r \in Reqs : RespondRedeemed(r)

\* requests arrive and are served concurrently
Spec == Init /\ [][Next]_vars

\* a client that sends request r only after it has the answers to all
\* requests before r
InTurn(r) == \A q \in Reqs : q < r => pc[q] = "done"

NextSeq ==
    \/ \E r \in Reqs : InTurn(r) /\ GateReject(r)
    \/ \E r \in Reqs : InTurn(r) /\ MissingInputReject(r)
    \/ \E r \in Reqs : InTurn(r) /\ VerifyStart(r)
    \/ \E r \in Reqs : InTurn(r) /\ Health(r)
    \/ \E r \in Reqs : GetConnection(r)
    \/ \E r \in Reqs : GetConnectionFail(r)
    \/ \E r \in Reqs : SelectExec(r)
    \/ \E r \in Reqs : SelectFail(r)
    \/ \E r \in Reqs : RespondInvalidKey(r)
    \/ \E r \in Reqs : RespondAlreadyRedeemed(r)
    \/ \E r \in Reqs : IssueUpdate(r)
    \/ \E r \in Reqs : RespondMatch(r)
    \/ \E r \in Reqs : RespondMismatch(r)
    \/ \E r \in Reqs : UpdateExec(r)
    \/ \E r \in Reqs : UpdateFail(r)
    \/ \E r \in Reqs : RespondRedeemed(r)

SpecSeq == Init /\ [][NextSeq]_vars

\* a sequential client, K1's record unbound in any representation
SpecRepr == InitRepr /\ [][NextSeq]_vars

\* concurrent requests, SERVER_API_KEY set, empty or unset
SpecGate == InitAnyConfig /\ [][Next]_vars

\* the server under load: besides the requests of Reqs, other verify
\* requests take and release pool connections
NextPool ==
    \/ \E r \in Reqs : VerifyStart(r) /\ hwid'[r] = Str("H2")
    \/ \E r \in Reqs : GetConnection(r)
    \/ \E r \in Reqs : GetConnectionFail(r)
    \/ \E r \in Reqs : SelectExec(r)
    \/ \E r \in Reqs : SelectFail(r)
    \/ \E r \in Reqs : RespondInvalidKey(r)
    \/ \E r \in Reqs : RespondAlreadyRedeemed(r)
    \/ \E r \in Reqs : IssueUpdate(r)
    \/ \E r \in Reqs : RespondMatch(r)
    \/ \E r \in Reqs : RespondMismatch(r)
    \/ \E r \in Reqs : UpdateExec(r)
    \/ \E r \in Reqs : UpdateFail(r)
    \/ \E r \in Reqs : RespondRedeemed(r)
    \/ OtherAcquire
    \/ OtherRelease

SpecPool == Init /\ [][NextPool]_vars

\* what the event loop, the pool and MySQL do for request r once it is in
Progress(r) ==
    \/ GetConnection(r)
    \/ GetConnectionFail(r)
    \/ SelectExec(r)
    \/ SelectFail(r)
    \/ RespondInvalidKey(r)
    \/ RespondAlreadyRedeemed(r)
    \/ IssueUpdate(r)
    \/ RespondMatch(r)
    \/ RespondMismatch(r)
    \/ UpdateExec(r)
    \/ UpdateFail(r)
    \/ RespondRedeemed(r)

\* the loaded pool with the requests of Reqs all verifying the provisioned
\* key K1 with hwid H2 (the InvalidKey branch is never taken)
NextWait ==
    \/ \E r \in Reqs : /\ VerifyStart(r)
                        /\ key'[r] = Str("K1")
                        /\ hwid'[r] = Str("H2")
    \/ \E r \in Reqs : GetConnection(r)
    \/ \E r \in Reqs : GetConnectionFail(r)
    \/ \E r \in Reqs : SelectExec(r)
    \/ \E r \in Reqs : SelectFail(r)
    \/ \E r \in Reqs : RespondAlreadyRedeemed(r)
    \/ \E r \in Reqs : IssueUpdate(r)
    \/ \E r \in Reqs : RespondMatch(r)
    \/ \E r \in Reqs : RespondMismatch(r)
    \/ \E r \in Reqs : UpdateExec(r)
    \/ \E r \in Reqs : UpdateFail(r)
    \/ \E r \in Reqs : RespondRedeemed(r)
    \/ OtherAcquire
    \/ OtherRelease

\* every statement sent to MySQL finishes and every resolved await runs its
\* continuation; the pool serves its waiters in turn (strong fairness: a
\* waiter is not passed over for ever); the further requests finish too
SpecPoolFair ==
    /\ Init /\ [][NextWait]_vars
    /\ \A r \in Reqs : SF_vars(Progress(r))
    /\ WF_vars(OtherRelease)

TypeOK ==
    /\ secret \in Secrets
    /\ held \in 0..connectionLimit
    /\ \A r \in Reqs :
         pc[r] \in {"new", "getConnection", "select", "rows", "update",
                    "updated", "done"}

(* ------------------------ notions of the claims ----------------------- *)

AllDone == \A r \in Reqs : pc[r] = "done"

\* r went past the gate and the input check: it runs verify(key, hwid)
RanVerify(r) ==
    /\ pc[r] # "new"
    /\ route[r] = "/verify_key"
    /\ res[r] \notin {Unauthorized, MissingInput}

\* the requests that run verify on key k
Verifiers(k) == {r \in Reqs : RanVerify(r) /\ key[r] = Str(k)}

\* r ran verify to its end and no store operation failed
Completed(r) == RanVerify(r) /\ pc[r] = "done" /\ fault[r] = "none"

\* boundHwid / redeemed absent or empty
Absent(x) == x \in {Undef, Null, Str("")}

\* k was provisioned unbound, with no redemption marker
Fresh(k) ==
    /\ Len(seed[k]) = 1
    /\ Absent(seed[k][1].HWID)
    /\ Absent(seed[k][1].redeemedBy)

\* k's record is bound to hwid h in table t
BoundTo(t, k, h) == Len(t[k]) = 1 /\ ~Absent(h) /\ t[k][1].HWID = h

\* k's record is bound to some hwid in table t
Bound(t, k) == Len(t[k]) = 1 /\ ~Absent(t[k][1].HWID)

(* ------------------------------- claims ------------------------------- *)

\* C1: when two or more requests have run verify on the same key, which was
\* provisioned unbound with no redemption marker, and all have returned
\* without a store failure, exactly one of them returned RedeemedNow.
C1_ExactlyOneRedeemedNow ==
    \A k \in KeyNames :
        ( /\ AllDone
          /\ Fresh(k)
          /\ Cardinality(Verifiers(k)) >= 2
          /\ \A r \in Verifiers(k) : Completed(r) )
        => Cardinality({r \in Verifiers(k) : res[r] = RedeemedNow}) = 1

\* C2: once a key's boundHwid holds a non-empty value, no step gives it a
\* different value.
C2_BindingImmutable ==
    [][\A k \in KeyNames :
          Bound(store, k) => store'[k][1].HWID = store[k][1].HWID]_vars

\* C3: a write takes effect only on a record that is unbound when the write
\* commits: no step changes the record of a key that is already bound.
C3_WriteOnlyIfUnbound ==
    [][\A k \in KeyNames : store'[k] # store[k] => ~Bound(store, k)]_vars

\* C4: when requests have raced on a key provisioned unbound, there is one
\* winner with RedeemedNow and every other request returned AuthorizedMatch
\* if its hwid is the committed boundHwid and HwidMismatch otherwise (stated
\* for hwids other than the string 'null', which C6 is about).
C4_LosersConsistent ==
    \A k \in KeyNames :
        ( /\ AllDone
          /\ Fresh(k)
          /\ Cardinality(Verifiers(k)) >= 2
          /\ \A r \in Verifiers(k) : Completed(r) /\ hwid[r] # Str("null") )
        => \E w \in Verifiers(k) :
              /\ res[w] = RedeemedNow
              /\ \A r \in Verifiers(k) \ {w} :
                    res[r] = IF BoundTo(store, k, hwid[r])
                               THEN AuthorizedMatch
                               ELSE HwidMismatch

\* C5: a request gets past the gate only if its credential equals the
\* configured secret and that secret is a non-empty string; every other
\* request is answered Unauthorized with no connection taken and no store
\* operation issued.
C5_GateExactMatch ==
    \A r \in Reqs :
        pc[r] # "new" =>
            IF Truthy(secret) /\ serverAuthKey[r] = secret
              THEN res[r] # Unauthorized
              ELSE /\ res[r] = Unauthorized
                   /\ ~connection[r]
                   /\ nReads[r] = 0
                   /\ nWrites[r] = 0
                   /\ store = seed

\* C6: on a key provisioned unbound with no marker, verify(key, A) run to
\* completion and then verify(key, A) again return RedeemedNow and then
\* AuthorizedMatch, and the record ends bound to A (any non-empty string A).
C6_RedeemThenMatch ==
    \A k \in KeyNames :
        ( /\ Fresh(k)
          /\ Completed(1) /\ Completed(2)
          /\ key[1] = Str(k) /\ key[2] = Str(k)
          /\ hwid[2] = hwid[1]
          /\ \A r \in Reqs : r > 2 => pc[r] = "new" )
        => /\ res[1] = RedeemedNow
           /\ res[2] = AuthorizedMatch
           /\ BoundTo(store, k, hwid[1])

\* C7: on a key provisioned unbound with no marker, verify(key, A) run to
\* completion and then verify(key, B) with B # A return RedeemedNow and then
\* HwidMismatch, and the record stays bound to A.
C7_RedeemThenMismatch ==
    \A k \in KeyNames :
        ( /\ Fresh(k)
          /\ Completed(1) /\ Completed(2)
          /\ key[1] = Str(k) /\ key[2] = Str(k)
          /\ hwid[2] # hwid[1]
          /\ \A r \in Reqs : r > 2 => pc[r] = "new" )
        => /\ res[1] = RedeemedNow
           /\ res[2] = HwidMismatch
           /\ BoundTo(store, k, hwid[1])

\* C8: a request that presents hwid H and reads the key's record bound to H
\* issues no write and returns AuthorizedMatch.
C8_IdempotentReverify ==
    \A r \in Reqs :
        ( /\ RanVerify(r)
          /\ pc[r] \in {"update", "updated", "done"}
          /\ fault[r] = "none"
          /\ Len(rows[r]) = 1
          /\ rows[r][1].HWID = hwid[r] )
        => /\ nWrites[r] = 0
           /\ pc[r] = "done"
           /\ res[r] = AuthorizedMatch

\* C9: a request that ran verify to its end on a key with no record returned
\* InvalidKey and issued no write; the key still has no record, and while
\* only such keys are verified the table is as provisioned.
C9_UnknownKeyInvalid ==
    /\ \A r \in Reqs :
          (Completed(r) /\ seed[key[r].v] = << >>)
          => /\ res[r] = InvalidKey
             /\ nWrites[r] = 0
             /\ store[key[r].v] = << >>
    /\ (\A r \in Reqs : RanVerify(r) => seed[key[r].v] = << >>)
       => store = seed

\* a request for the unprovisioned key K0 was answered InvalidKey
C9_Witness ==
    \E r \in Reqs :
        Completed(r) /\ key[r] = Str("K0") /\ hwid[r] = Str("H1")
                     /\ res[r] = InvalidKey

\* C10: the step in which a store operation of a request fails answers
\* StoreError, ends the request (nothing is issued again) and leaves the
\* table as it was; a failed request's answer is StoreError and it issued
\* at most one read and one write.
C10_StoreErrorOnFault ==
    /\ [](\A r \in Reqs :
            fault[r] # "none" =>
                /\ pc[r] = "done"
                /\ res[r] = StoreError
                /\ nReads[r] <= 1
                /\ nWrites[r] <= 1)
    /\ [][\A r \in Reqs :
            (fault[r] = "none" /\ fault'[r] # "none") =>
                /\ store' = store
                /\ nReads'[r] = nReads[r]
                /\ nWrites'[r] = nWrites[r]]_vars

\* the first-use UPDATE of a request failed and it was answered StoreError
C10_Witness ==
    \E r \in Reqs :
        /\ fault[r] = "update"
        /\ res[r] = StoreError
        /\ \E q \in Reqs : fault[q] = "select" /\ res[q] = StoreError

\* C11: a verify request past the gate whose key or hwid is missing or empty
\* has been answered MissingInput at once: it took no connection, issued no
\* read and no write and released nothing; while only such requests (and
\* rejected or health requests) have arrived the table is as provisioned and
\* no connection is out.
C11_MissingInputImmediate ==
    /\ \A r \in Reqs :
          ( /\ pc[r] # "new"
            /\ route[r] = "/verify_key"
            /\ res[r] # Unauthorized
            /\ (Absent(key[r]) \/ Absent(hwid[r])) )
          => /\ pc[r] = "done"
             /\ res[r] = MissingInput
             /\ ~connection[r]
             /\ nReads[r] = 0
             /\ nWrites[r] = 0
             /\ nReleases[r] = 0
    /\ (\A r \in Reqs : pc[r] = "new" \/ ~RanVerify(r))
       => (store = seed /\ held = 0)

\* requests with an empty key and with an absent hwid were answered
\* MissingInput
C11_Witness ==
    \E r, q \in Reqs :
        /\ res[r] = MissingInput /\ key[r] = Str("") /\ hwid[r] = Str("H1")
        /\ res[q] = MissingInput /\ key[q] = Str("K1") /\ hwid[q] = Undef

\* C12: a record with boundHwid set has its redemption marker set; a record
\* that differs from the provisioned one holds the hwid of a request that
\* issued a write, together with the marker 'true'; and while every write
\* issued has failed the table is as provisioned.
C12_NoPartialMutation ==
    /\ \A k \in KeyNames :
          Len(store[k]) = 1 =>
              /\ Bound(store, k) => ~Absent(store[k][1].redeemedBy)
              /\ store[k] # seed[k] =>
                    \E r \in Reqs :
                        /\ nWrites[r] >= 1
                        /\ key[r] = Str(k)
                        /\ store[k][1] =
                             [HWID |-> hwid[r], redeemedBy |-> Str("true")]
    /\ (\A r \in Reqs : nWrites[r] >= 1 => fault[r] = "update")
       => store = seed

\* one request bound the key and was answered RedeemedNow, the UPDATE of
\* another failed
C12_Witness ==
    \E r, q \in Reqs :
        /\ res[r] = RedeemedNow
        /\ store["K1"][1] = [HWID |-> hwid[r], redeemedBy |-> Str("true")]
        /\ fault[q] = "update"

\* C13: every health request, whatever credential it carries, has been
\* answered ok, and took no connection and issued no read or write.
C13_HealthAlwaysOk ==
    \A r \in Reqs :
        (pc[r] # "new" /\ route[r] = "/health")
        => /\ res[r] = HealthOk
           /\ ~connection[r]
           /\ nReads[r] = 0
           /\ nWrites[r] = 0

\* the record of k was provisioned with no boundHwid and a redemption marker
MarkedUnbound(k) ==
    /\ Len(seed[k]) = 1
    /\ Absent(seed[k][1].HWID)
    /\ ~Absent(seed[k][1].redeemedBy)

C15_OneReadOneWrite ==
    \A r \in Reqs :
        /\ nReads[r] <= 1
        /\ nWrites[r] <= 1
        /\ nWrites[r] = 1 => nReads[r] = 1
        /\ pc[r] = "done" =>
              /\ nWrites[r] = 1 <=> (res[r] = RedeemedNow \/ fault[r] = "update")
              /\ res[r] \in {InvalidKey, AlreadyRedeemedByOther, AuthorizedMatch,
                             HwidMismatch, RedeemedNow} => nReads[r] = 1
              /\ res[r] = MissingInput => nReads[r] = 0

\* one request was answered RedeemedNow after one read and one write, another
\* HwidMismatch after one read and no write
C15_Witness ==
    \E r, q \in Reqs :
        /\ res[r] = RedeemedNow /\ nReads[r] = 1 /\ nWrites[r] = 1
        /\ res[q] = HwidMismatch /\ nReads[q] = 1 /\ nWrites[q] = 0

\* the requests of Reqs that hold a connection
Holders == {r \in Reqs : connection[r] /\ pc[r] # "done"}

\* C16: at most connectionLimit connections are out; the connections out are
\* those of the requests in flight that acquired one; a request has released
\* once if it acquired a connection and has finished, and never otherwise;
\* with no request in flight no connection is out.
C16_PoolDiscipline ==
    /\ held <= connectionLimit
    /\ held = others + Cardinality(Holders)
    /\ \A r \in Reqs :
          nReleases[r] = IF connection[r] /\ pc[r] = "done" THEN 1 ELSE 0
    /\ (others = 0 /\ \A r \in Reqs : pc[r] \in {"new", "done"}) => held = 0

\* the pool is exhausted, a request of Reqs holds one of the connections,
\* another has released after a failed read
C16_Witness ==
    /\ held = connectionLimit
    /\ \E r, q \in Reqs :
          /\ r \in Holders
          /\ fault[q] = "select" /\ nReleases[q] = 1

HasRow(r) ==
    /\ pc[r] \in {"rows", "update", "updated", "done"}
    /\ RanVerify(r)
    /\ fault[r] \notin {"getConnection", "select"}
    /\ Len(rows[r]) = 1

\* C18: what a request does with a row whose HWID is absent, null or ''
\* depends only on whether the marker is absent, null or '' and on nothing
\* else of the representation: with no marker it issues the write, is answered
\* RedeemedNow and leaves the record (hwid, 'true'); with a marker it issues
\* no write and is answered AlreadyRedeemedByOther.
C18_UnboundRepresentations ==
    \A r \in Reqs :
        (HasRow(r) /\ Absent(rows[r][1].HWID)) =>
            IF Absent(rows[r][1].redeemedBy)
              THEN /\ pc[r] = "rows" \/ nWrites[r] = 1
                   /\ (pc[r] = "done" /\ fault[r] = "none") =>
                         /\ res[r] = RedeemedNow
                         /\ store[key[r].v][1] =
                              [HWID |-> hwid[r], redeemedBy |-> Str("true")]
              ELSE /\ nWrites[r] = 0
                   /\ pc[r] = "done" => res[r] = AlreadyRedeemedByOther

\* a record with HWID '' and redeemedBy NULL was redeemed
C18_Witness ==
    \E r \in Reqs :
        /\ HasRow(r)
        /\ rows[r][1] = [HWID |-> Str(""), redeemedBy |-> Null]
        /\ res[r] = RedeemedNow

\* C19: all the requests on a key that were answered success = true
\* presented the same hwid (stated for hwids other than the string 'null',
\* which C6 is about).
C19_OneDevicePerKey ==
    \A k \in KeyNames :
        \A r, q \in Verifiers(k) :
            ( /\ res[r].success /\ res[q].success
              /\ hwid[r] # Str("null") /\ hwid[q] # Str("null") )
            => hwid[r] = hwid[q]

\* C20: the table holds the keys it was provisioned with, no record more and
\* none less, and a record that differs from the provisioned one is the
\* record of a key that a request named and wrote to.
C20_OtherRecordsUntouched ==
    /\ DOMAIN store = DOMAIN seed
    /\ \A k \in KeyNames :
          /\ Len(store[k]) = Len(seed[k])
          /\ store[k] # seed[k] =>
                \E r \in Reqs :
                    /\ key[r] = Str(k)
                    /\ nWrites[r] >= 1
                    /\ pc[r] \in {"updated", "done"}

\* a request bound K1 and another verified the unprovisioned K0: K2's record
\* is as provisioned and K0 still has none
C20_Witness ==
    \E r, q \in Reqs :
        /\ key[r] = Str("K1") /\ res[r] = RedeemedNow
        /\ key[q] = Str("K0") /\ res[q] = InvalidKey
        /\ store["K1"] # seed["K1"]
        /\ store["K2"] = seed["K2"] /\ Len(store["K2"]) = 1
        /\ store["K0"] = << >>

====
